---------------------------- MODULE Spec2Model ----------------------------
(***************************************************************************)
(* seedo: a change-triggered command runner.                               *)
(*                                                                         *)
(* The model covers the debounce/dispatch engine of src/src/main.rs: the   *)
(* notification callback that filters raw events and sends them on an      *)
(* unbounded channel, and the Dispatcher loop of try_main that receives    *)
(* them with a timeout, extends the watch set on Create events, arms the   *)
(* per-rule DebounceTimer and runs the command of every expired rule.      *)
(*                                                                         *)
(* The start-up of try_main (the construction loop that builds a command,  *)
(* expands and subscribes the globs of every Rule descriptor) has its own  *)
(* specification, StartupSpec; the glob compiler and the base-directory    *)
(* filter of src/src/glob_watcher.rs have theirs, GlobSpec and BaseDirSpec.*)
(*                                                                         *)
(* Time is a discrete clock `now` (the value Instant::now() returns).      *)
(* Option<T> is modelled as a sequence: None is << >>, Some(x) is <<x>>.   *)
(***************************************************************************)
EXTENDS Integers, Sequences, FiniteSets, TLC

\* ------------------------------------------------------------------ bounds
\* The clock stops advancing at MaxTime.
MaxTime == 3
\* The channel is unbounded in the code; the model holds at most MaxQueue
\* undelivered events.
MaxQueue == 2

\* ----------------------------------------------------------- configuration
\* Two rules ([[seedo]] tables of seedo.toml), in declaration order.  The
\* second rule has two globs and a longer debounce time.
Configs ==
    << [command |-> "build", globs |-> << "*.rs" >>,          debounce_ms |-> 1],
       [command |-> "docs",  globs |-> << "*.txt", "*.md" >>, debounce_ms |-> 2] >>

Rules == DOMAIN Configs

\* The raw notifications (notify::Event) the OS notification primitive
\* delivers: every kind the code tells apart, and path lists that hit the
\* first rule, the second, both and none.  "a.rs" is matched by the first
\* rule only, "b.md" by the second rule only (by its second glob), "c.tmp"
\* by no rule.
RawEvents ==
    { [kind |-> "Create",           paths |-> << "c.tmp", "a.rs" >>],
      [kind |-> "Modify(Data)",     paths |-> << "b.md" >>],
      [kind |-> "Modify(Name)",     paths |-> << "a.rs", "b.md" >>],
      [kind |-> "Remove",           paths |-> << "c.tmp" >>],
      [kind |-> "Other",            paths |-> << "a.rs" >>],
      [kind |-> "Access",           paths |-> << "a.rs", "b.md" >>],
      [kind |-> "Modify(Metadata)", paths |-> << "a.rs" >>] }

\* The outcomes of Command::status().
Outcomes == { "success", "code", "nocode", "launchfail" }

None == << >>
Some(x) == << x >>

\* ------------------------------------------------------------------- state
VARIABLES
    now,        \* the clock read by Instant::now()
    queue,      \* the channel: events sent and not yet received
    connected,  \* TRUE while the sender held by the watcher callback is alive
    timers,     \* debounce_timer.timers[r].start, an Option<Instant>
    pc,         \* the Dispatcher's position: "wait", "service", "command", "done"
    idx,        \* the iteration the service loop is at (0 outside the loop)
    cmd,        \* the outcome of the command being run ("none" when none runs)
    children,   \* the rules whose child process is running
    result,     \* what try_main returned ("running" before it returns)
    firstHit,   \* history: per rule, when the first qualifying event since
                \* the rule's last execution was dequeued
    absorbed,   \* history: per rule, whether a later qualifying event was
                \* dequeued, at a later time, since the first one
    wakeRun,    \* history: the rules whose command was started in this wake
    watchCalls, \* history: the watch() calls made by the step into this state
    logged,     \* history: the messages logged by the step into this state
    existing,   \* history: the paths Path::exists() found by that step
    callback,   \* history: "sent" or "dropped" when that step was the
                \* notification callback, "none" otherwise
    \* start-up of try_main (the construction loop before `loop`)
    configs,    \* the Rule descriptors try_main was given
    ci,         \* the descriptor the construction loop is at
    walk,       \* the entries the walk of that descriptor has yet to yield
    failure,    \* the error try_main returned ("none" when none)
    \* glob_watcher.rs: one compilation and one match
    gw_pattern, \* the glob given to GlobWatcher::from_pattern
    gw_compiled,\* what Pattern::new returned for it (None before the call)
    gw_path,    \* the path given to GlobWatcher::matches (None before)
    gw_is_dir,  \* what Path::is_dir() returned for that path
    gw_matched, \* what GlobWatcher::matches returned (None before)
    \* glob_watcher.rs: the base directories of from_patterns
    gw_patterns,      \* the globs given to GlobWatcher::from_patterns
    base_directories  \* the directories it retained (None before the call)

\* The variables of the Dispatcher loop and of the notification callback.
loop_vars == << now, queue, connected, timers, pc, idx, cmd, children,
                result, firstHit, absorbed, wakeRun, watchCalls, logged,
                existing, callback >>

\* The variables of the start-up of try_main.
startup_vars == << configs, ci, walk, failure >>

\* The variables of the glob compiler and of the base-directory filter.
glob_vars == << gw_pattern, gw_compiled, gw_path, gw_is_dir, gw_matched,
                gw_patterns, base_directories >>

vars == << loop_vars, startup_vars, glob_vars >>

\* --------------------------------------------------------- EventFilter
\* A plausible slip: every Modify kind is filtered out.
should_event_trigger_no_modify(kind) ==
    ~ (kind \in { "Modify(Data)", "Modify(Metadata)", "Modify(Name)",
                  "Access" })

\* should_event_trigger: every kind but Modify(Metadata(_)) and Access(_).
should_event_trigger(kind) ==
    ~ (kind \in { "Modify(Metadata)", "Access" })

\* ------------------------------------------------------- DebounceTimer
\* Duration::saturating_sub
saturating_sub(a, b) == IF a > b THEN a - b ELSE 0

\* DebounceTimer::new(Duration::from_millis(config.debounce_ms)).duration
Duration(r) == Configs[r].debounce_ms

\* DebounceTimer::calculate_timeout, with start.elapsed() = t - start
calculate_timeout(start, duration, t) ==
    IF start = None THEN None
    ELSE Some(saturating_sub(duration, t - start[1]))

\* A plausible slip: every Running timer counts as expired at a wake.
expired_when_running(start, duration, t) == start # None

\* DebounceTimer::expired: strictly later than start + duration
expired(start, duration, t) ==
    IF start = None THEN FALSE ELSE t > start[1] + duration

\* A plausible slip: the timer is left Running when the command is run.
stop_keeps_running(start) == start

\* DebounceTimer::stop
stop(start) == None

\* A plausible slip (the "reset on every event" policy): the timer is
\* restarted by every qualifying event.
start_always(start, t) == Some(t)

\* DebounceTimer::start_if_stopped
start_if_stopped(start, t) ==
    IF start = None THEN Some(t) ELSE start

\* ---------------------------------------------------- DebounceTimerSet
\* A plausible slip: the comparison is turned round and the longest
\* remaining time is kept.
Min_keeps_longest(a, b) == IF a >= b THEN a ELSE b

\* std::cmp::min
Min(a, b) == IF a <= b THEN a ELSE b

\* The loop of DebounceTimerSet::calculate_timeout from timer i on, with
\* `duration` the minimum found so far.
RECURSIVE calculate_timeout_from(_, _, _, _)
calculate_timeout_from(ts, t, i, duration) ==
    IF i > Len(ts) THEN duration
    ELSE LET timer_duration == calculate_timeout(ts[i], Duration(i), t)
         IN  calculate_timeout_from(ts, t, i + 1,
                 IF timer_duration = None THEN duration
                 ELSE IF duration = None THEN timer_duration
                 ELSE Some(Min(duration[1], timer_duration[1])))

\* DebounceTimerSet::calculate_timeout
set_calculate_timeout(ts, t) == calculate_timeout_from(ts, t, 1, None)

\* A plausible slip: the deadline is looked at before the channel's state.
timeout_deadline_first(ts, q, conn, t) ==
    LET d == set_calculate_timeout(ts, t)
    IN  IF q # << >> THEN "Ok"
        ELSE IF d # None /\ d[1] = 0 THEN "Timeout"
        ELSE IF ~ conn THEN "Disconnected"
        ELSE "Blocked"

\* crossbeam_channel: Receiver::recv_timeout(d) and Receiver::recv() as
\* DebounceTimerSet::timeout calls them.  A message that is available is
\* returned first; an empty channel without sender is Disconnected; else
\* the call returns Timeout once the duration has run out (the remaining
\* time is 0), and blocks until then ("Blocked").
timeout(ts, q, conn, t) ==
    LET d == set_calculate_timeout(ts, t)
    IN  IF q # << >> THEN "Ok"
        ELSE IF ~ conn THEN "Disconnected"
        ELSE IF d # None /\ d[1] = 0 THEN "Timeout"
        ELSE "Blocked"

\* ------------------------------------------------------------ channel
\* Sender::send on the unbounded channel
send(q, event) == Append(q, event)

\* A plausible slip: the latest message is received first.
recv_latest(q) == [event |-> q[Len(q)], rest |-> SubSeq(q, 1, Len(q) - 1)]

\* What a successful receive returns, and what it leaves in the channel.
recv(q) == [event |-> Head(q), rest |-> Tail(q)]

\* ------------------------------------------------------- watch_new_files
\* The watch() calls watch_new_files issues for `event`: one NonRecursive
\* call per named path that exists, in order.  `ex` are the paths for
\* which Path::exists() is true when it is called, `denied` those for
\* which the watcher returns an error.
\* A plausible slip: the path is watched without testing that it exists.
RECURSIVE watch_paths_unchecked(_, _, _, _)
watch_paths_unchecked(paths, ex, denied, i) ==
    IF i > Len(paths) THEN << >>
    ELSE << [path |-> paths[i], mode |-> "NonRecursive",
             ok |-> ~ (paths[i] \in denied)] >>
         \o watch_paths_unchecked(paths, ex, denied, i + 1)

RECURSIVE watch_paths(_, _, _, _)
watch_paths(paths, ex, denied, i) ==
    IF i > Len(paths) THEN << >>
    ELSE IF paths[i] \in ex
         THEN << [path |-> paths[i], mode |-> "NonRecursive",
                  ok |-> ~ (paths[i] \in denied)] >>
              \o watch_paths(paths, ex, denied, i + 1)
         ELSE watch_paths(paths, ex, denied, i + 1)

watch_new_files(event, ex, denied) ==
    IF event.kind = "Create" THEN watch_paths(event.paths, ex, denied, 1)
    ELSE << >>

\* ------------------------------------------------------------ matching
\* glob::Pattern::matches_path for the globs and paths of the model.
matches_path(pattern, path) ==
    \/ pattern = "*.rs"  /\ path = "a.rs"
    \/ pattern = "*.md"  /\ path = "b.md"

\* for pattern in &seedo.patterns { if pattern.matches_path(path) ... }
RECURSIVE any_pattern_matches(_, _, _)
any_pattern_matches(patterns, path, j) ==
    IF j > Len(patterns) THEN FALSE
    ELSE IF matches_path(patterns[j], path) THEN TRUE
    ELSE any_pattern_matches(patterns, path, j + 1)

\* A plausible slip: only the first path of the event is tested.
event_hits_first_path_only(patterns, paths, i) ==
    i = 1 /\ Len(paths) >= 1 /\ any_pattern_matches(patterns, paths[1], 1)

\* for path in &event.paths { ... continue 'outer on the first match }
RECURSIVE event_hits(_, _, _)
event_hits(patterns, paths, i) ==
    IF i > Len(paths) THEN FALSE
    ELSE IF any_pattern_matches(patterns, paths[i], 1) THEN TRUE
    ELSE event_hits(patterns, paths, i + 1)

\* 'outer: for (timer, seedo) in timers.iter_mut().zip(seedos.iter_mut())
RECURSIVE arm_from(_, _, _, _)
arm_from(ts, event, t, r) ==
    IF r > Len(ts) THEN ts
    ELSE arm_from(
             IF event_hits(Configs[r].globs, event.paths, 1)
             THEN [ts EXCEPT ![r] = start_if_stopped(@, t)]
             ELSE ts,
             event, t, r + 1)

arm_timers(ts, event, t) == arm_from(ts, event, t, 1)

\* ------------------------------------------------------- command result
\* The message logged for the result of seedo.command.status().
status_log(outcome) ==
    IF outcome = "success" THEN << >>
    ELSE IF outcome = "code" THEN << "command exited with code" >>
    ELSE IF outcome = "nocode" THEN << "command exited without code" >>
    ELSE << "command failed to launch" >>

\* A plausible slip: the result of status() is propagated with `?`.
on_status_propagate(outcome) ==
    IF outcome = "launchfail" THEN "return" ELSE "continue"

\* What the match on the result of status() does after logging: every arm
\* falls through to the next iteration of the service loop.
on_status(outcome) == "continue"

\* The messages watch_new_files logs: one per failed watch() call.
RECURSIVE watch_log(_, _)
watch_log(calls, i) ==
    IF i > Len(calls) THEN << >>
    ELSE (IF calls[i].ok THEN << >> ELSE << "Failed to watch" >>)
         \o watch_log(calls, i + 1)

\* ---------------------------------------------------------------- Init
\* The construction loop of try_main is over and has returned no error.
StartupOver ==
    /\ configs = << >>
    /\ ci = 1
    /\ walk = << >>
    /\ failure = "none"

\* No GlobWatcher is being built.
GlobIdle ==
    /\ gw_pattern = << >>
    /\ gw_compiled = None
    /\ gw_path = None
    /\ gw_is_dir = FALSE
    /\ gw_matched = None
    /\ gw_patterns = << >>
    /\ base_directories = None

\* The state when try_main enters its loop: every timer is new (stopped),
\* nothing has been sent.
LoopInit ==
    /\ now = 0
    /\ queue = << >>
    /\ connected = TRUE
    /\ timers = [r \in Rules |-> None]
    /\ pc = "wait"
    /\ idx = 0
    /\ cmd = "none"
    /\ children = { }
    /\ result = "running"
    /\ firstHit = [r \in Rules |-> None]
    /\ absorbed = [r \in Rules |-> FALSE]
    /\ wakeRun = << >>
    /\ watchCalls = << >>
    /\ logged = << >>
    /\ existing = { }
    /\ callback = "none"

\* try_main has entered its loop; no GlobWatcher is being built.
Init ==
    /\ LoopInit
    /\ StartupOver
    /\ GlobIdle

\* ---------------------------------------------------------- environment
\* A step that is not the notification callback and calls neither
\* Path::exists nor Watcher::watch.
NoWatch == watchCalls' = << >> /\ existing' = { } /\ callback' = "none"

\* A step that does not do that either and logs nothing.
Silent == NoWatch /\ logged' = << >>

\* Time passes.
Tick ==
    /\ UNCHANGED << startup_vars, glob_vars >>
    /\ pc # "done"
    /\ now < MaxTime
    /\ now' = now + 1
    /\ Silent
    /\ UNCHANGED << queue, connected, timers, pc, idx, cmd, children,
                    result, firstHit, absorbed, wakeRun >>

\* The closure given to notify::recommended_watcher, run by a notifier
\* thread for one raw notification.
Notify(event) ==
    /\ UNCHANGED << startup_vars, glob_vars >>
    /\ pc # "done"
    /\ connected
    /\ IF should_event_trigger(event.kind)
       THEN /\ Len(queue) < MaxQueue
            /\ queue' = send(queue, event)
       ELSE queue' = queue
    /\ callback' = IF queue' # queue THEN "sent" ELSE "dropped"
    /\ watchCalls' = << >> /\ logged' = << >> /\ existing' = { }
    /\ UNCHANGED << now, connected, timers, pc, idx, cmd, children,
                    result, firstHit, absorbed, wakeRun >>

\* The sending side of the channel goes away (the notification backend
\* terminates and drops the closure that owns the sender).
Disconnect ==
    /\ UNCHANGED << startup_vars, glob_vars >>
    /\ pc # "done"
    /\ connected
    /\ connected' = FALSE
    /\ Silent
    /\ UNCHANGED << now, queue, timers, pc, idx, cmd, children,
                    result, firstHit, absorbed, wakeRun >>

\* ----------------------------------------------------------- Dispatcher
\* A qualifying event for rule r: one of its paths matches one of the
\* rule's globs.
Qualifies(r, event) ==
    \E i \in DOMAIN event.paths : \E j \in DOMAIN Configs[r].globs :
        matches_path(Configs[r].globs[j], event.paths[i])

\* Ok(event): the arm of the match on debounce_timer.timeout(&rcv) that
\* handles a received event, up to its `continue`.
RecvEvent ==
    /\ UNCHANGED << startup_vars, glob_vars >>
    /\ pc = "wait"
    /\ timeout(timers, queue, connected, now) = "Ok"
    /\ LET event == recv(queue).event
           named == { event.paths[i] : i \in DOMAIN event.paths }
           probed == IF event.kind = "Create" THEN SUBSET named ELSE { { } }
       IN  \E ex \in probed : \E denied \in SUBSET ex :
             LET calls == IF event.kind = "Create"
                          THEN watch_new_files(event, ex, denied)
                          ELSE << >>
             IN  /\ queue' = recv(queue).rest
                 /\ existing' = ex
                 /\ callback' = "none"
                 /\ watchCalls' = calls
                 /\ logged' = watch_log(calls, 1)
                 /\ timers' = arm_timers(timers, event, now)
                 /\ firstHit' = [r \in Rules |->
                        IF Qualifies(r, event) /\ firstHit[r] = None
                        THEN Some(now) ELSE firstHit[r]]
                 /\ absorbed' = [r \in Rules |->
                        IF /\ Qualifies(r, event)
                           /\ firstHit[r] # None
                           /\ now > firstHit[r][1]
                        THEN TRUE ELSE absorbed[r]]
    /\ UNCHANGED << now, connected, pc, idx, cmd, children, result,
                    wakeRun >>

\* Err(RecvTimeoutError::Disconnected): warn, break, return Ok(()).
RecvDisconnected ==
    /\ UNCHANGED << startup_vars, glob_vars >>
    /\ pc = "wait"
    /\ timeout(timers, queue, connected, now) = "Disconnected"
    /\ pc' = "done"
    /\ result' = "Ok"
    /\ logged' = << "event channel closed" >>
    /\ NoWatch
    /\ UNCHANGED << now, queue, connected, timers, idx, cmd, children,
                    firstHit, absorbed, wakeRun >>

\* Err(RecvTimeoutError::Timeout): fall through to the service loop.
RecvTimeout ==
    /\ UNCHANGED << startup_vars, glob_vars >>
    /\ pc = "wait"
    /\ timeout(timers, queue, connected, now) = "Timeout"
    /\ pc' = "service"
    /\ idx' = 1
    /\ wakeRun' = << >>
    /\ Silent
    /\ UNCHANGED << now, queue, connected, timers, cmd, children,
                    result, firstHit, absorbed >>

\* A plausible slip: the service loop visits the rules last to first.
zip_order_reversed(i) == Len(Configs) + 1 - i

\* The rule the service loop visits at its i-th iteration.
zip_order(i) == i

\* The service loop moves on from iteration idx: to the next one, or back
\* to the top of the outer loop after the last one.
Advance ==
    IF idx < Len(timers)
    THEN pc' = "service" /\ idx' = idx + 1 /\ wakeRun' = wakeRun
    ELSE pc' = "wait" /\ idx' = 0 /\ wakeRun' = << >>

\* if timer.expired() { timer.stop(); let res = seedo.command.status(); ..
\* The command is started; the Dispatcher blocks in status().
ServiceFire ==
    /\ UNCHANGED << startup_vars, glob_vars >>
    /\ pc = "service"
    /\ LET r == zip_order(idx)
       IN  /\ expired(timers[r], Duration(r), now)
           /\ timers' = [timers EXCEPT ![r] = stop(@)]
           /\ firstHit' = [firstHit EXCEPT ![r] = None]
           /\ absorbed' = [absorbed EXCEPT ![r] = FALSE]
           /\ wakeRun' = Append(wakeRun, r)
           /\ \E outcome \in Outcomes :
                /\ cmd' = outcome
                /\ children' = IF outcome = "launchfail" THEN children
                               ELSE children \cup { r }
    /\ pc' = "command"
    /\ Silent
    /\ UNCHANGED << now, queue, connected, idx, result >>

\* The timer of the rule is not expired: nothing is done for the rule.
ServiceSkip ==
    /\ UNCHANGED << startup_vars, glob_vars >>
    /\ pc = "service"
    /\ ~ expired(timers[zip_order(idx)], Duration(zip_order(idx)), now)
    /\ Advance
    /\ Silent
    /\ UNCHANGED << now, queue, connected, timers, cmd, children,
                    result, firstHit, absorbed >>

\* .. status() returns: the result is logged and the loop goes on.
CommandReturn ==
    /\ UNCHANGED << startup_vars, glob_vars >>
    /\ pc = "command"
    /\ children' = children \ { zip_order(idx) }
    /\ logged' = status_log(cmd)
    /\ cmd' = "none"
    /\ IF on_status(cmd) = "continue"
       THEN Advance /\ result' = result
       ELSE pc' = "done" /\ result' = "Err" /\ UNCHANGED << idx, wakeRun >>
    /\ NoWatch
    /\ UNCHANGED << now, queue, connected, timers, firstHit, absorbed >>

Dispatcher ==
    \/ RecvEvent
    \/ RecvDisconnected
    \/ RecvTimeout
    \/ ServiceFire
    \/ ServiceSkip
    \/ CommandReturn

Next ==
    \/ Tick
    \/ \E event \in RawEvents : Notify(event)
    \/ Disconnect
    \/ Dispatcher

Spec == Init /\ [][Next]_vars

\* The Dispatcher is the process's main thread: when it can take a step it
\* takes one (a command it runs returns in the end), and time passes.
FairSpec == Spec /\ WF_vars(Dispatcher) /\ WF_vars(Tick)

\* ============================================================== start-up
\* The construction loop of try_main: for every Rule descriptor the
\* command is built, the globs are expanded, the expansion is walked and
\* every walk entry is subscribed, the globs are compiled.

\* A bound: the number of Rule descriptors the configuration holds.
MaxConfigs == 2

\* The Rule descriptors ([[seedo]] tables) start-up is tried with: with and
\* without a command, with no glob, one that expands to a directory, one
\* that matches no path and one that is no glob::Pattern.
Descriptors ==
    [ command_to_run : { << >>, << "make" >> },
      globs : { << >>, << "src" >>, << "*.txt" >>, << "[" >>,
                << "src", "[" >> } ]

RECURSIVE SeqsUpTo(_, _)
\* The sequences over S of length 1 .. n.
SeqsUpTo(S, n) ==
    IF n = 0 THEN { }
    ELSE LET shorter == SeqsUpTo(S, n - 1)
         IN  { << x >> : x \in S } \cup shorter
             \cup { Append(q, x) : q \in shorter, x \in S }

\* A plausible slip: an empty command line is not looked at.
command_from_iter_unchecked(iter) == "Ok"

\* command_from_iter: Err("no command given") when the iterator is empty.
command_from_iter(iter) ==
    IF iter = << >> THEN "Err" ELSE "Ok"

\* CommandToRun::to_command for the Vec form of command_to_run.
to_command(command_to_run) == command_from_iter(command_to_run)

\* glob::Pattern::new: "[" opens a character class that is never closed.
glob_pattern_valid(g) == g # "["

\* glob::glob(g) in the file system of the model: the paths the glob
\* expands to; << >> as well for a glob that is no pattern (the Err is
\* dropped by `.ok()`).
glob(g) ==
    IF g = "src" THEN << "src" >> ELSE << >>

\* ignore::Walk over one path of the model's file system: the directory
\* src holds two files.
walk_entries(path) ==
    IF path = "src" THEN << "src", "src/a.rs", "src/b.rs" >> ELSE << path >>

RECURSIVE path_iter(_, _)
\* abs_globs.iter().filter_map(|p| glob(&p).ok()).flatten()
path_iter(globs, j) ==
    IF j > Len(globs) THEN << >>
    ELSE glob(globs[j]) \o path_iter(globs, j + 1)

RECURSIVE walk_builder_build(_, _)
\* walk_builder.build() for the paths added to the WalkBuilder
walk_builder_build(paths, j) ==
    IF j > Len(paths) THEN << >>
    ELSE walk_entries(paths[j]) \o walk_builder_build(paths, j + 1)

\* for glob in abs_globs { patterns.push(Pattern::new(&glob)?) }
patterns_compile(globs) ==
    IF \A j \in DOMAIN globs : glob_pattern_valid(globs[j])
    THEN "Ok" ELSE "Err"

\* main: exit(1) when try_main returned an error
exit_status(res) == IF res = "Err" THEN 1 ELSE 0

\* try_main is called with a list of Rule descriptors.
StartupInit ==
    /\ now = 0
    /\ queue = << >>
    /\ connected = TRUE
    /\ timers = << >>
    /\ pc = "to_command"
    /\ idx = 0
    /\ cmd = "none"
    /\ children = { }
    /\ result = "running"
    /\ firstHit = << >>
    /\ absorbed = << >>
    /\ wakeRun = << >>
    /\ watchCalls = << >>
    /\ logged = << >>
    /\ existing = { }
    /\ callback = "none"
    /\ configs \in SeqsUpTo(Descriptors, MaxConfigs)
    /\ ci = 1
    /\ walk = << >>
    /\ failure = "none"
    /\ GlobIdle

\* An error is propagated out of try_main (`?` or bail!); main prints it
\* and exits.
Return(e) ==
    /\ pc' = "done"
    /\ result' = "Err"
    /\ failure' = e
    /\ walk' = << >>
    /\ UNCHANGED << ci, timers >>

\* to_command()?, absolutize, glob expansion, WalkBuilder::new / bail!.
ToCommand ==
    /\ pc = "to_command"
    /\ ci <= Len(configs)
    /\ LET config == configs[ci]
           paths == path_iter(config.globs, 1)
       IN  IF to_command(config.command_to_run) = "Err"
           THEN Return("no command given")
           ELSE IF paths = << >>
           THEN Return("no paths given")
           ELSE /\ walk' = walk_builder_build(paths, 1)
                /\ pc' = "walk"
                /\ UNCHANGED << ci, timers, result, failure >>
    /\ watchCalls' = << >> /\ logged' = << >>
    /\ UNCHANGED << now, queue, connected, idx, cmd, children, firstHit,
                    absorbed, wakeRun, existing, callback, configs,
                    glob_vars >>

\* One iteration of `for result in walk_builder.build()`: the entry may be
\* an error, and so may the result of watcher.watch(); both are
\* propagated with `?`.
WalkEntry ==
    /\ pc = "walk"
    /\ walk # << >>
    /\ \E outcome \in { "ok", "entry error", "watch error" } :
         /\ watchCalls' =
               IF outcome = "entry error" THEN << >>
               ELSE << [path |-> Head(walk), mode |-> "NonRecursive",
                        ok |-> outcome = "ok"] >>
         /\ logged' = IF outcome = "entry error" THEN << >>
                      ELSE << "watching" >>
         /\ IF outcome = "ok"
            THEN /\ walk' = Tail(walk)
                 /\ UNCHANGED << pc, ci, timers, result, failure >>
            ELSE Return(outcome)
    /\ UNCHANGED << now, queue, connected, idx, cmd, children, firstHit,
                    absorbed, wakeRun, existing, callback, configs,
                    glob_vars >>

\* The walk is over: the globs are compiled and the rule's timer and
\* Seedo are pushed.
PushSeedo ==
    /\ pc = "walk"
    /\ walk = << >>
    /\ IF patterns_compile(configs[ci].globs) = "Err"
       THEN Return("invalid pattern")
       ELSE /\ ci' = ci + 1
            /\ timers' = Append(timers, None)
            /\ pc' = "to_command"
            /\ UNCHANGED << walk, result, failure >>
    /\ watchCalls' = << >> /\ logged' = << >>
    /\ UNCHANGED << now, queue, connected, idx, cmd, children, firstHit,
                    absorbed, wakeRun, existing, callback, configs,
                    glob_vars >>

\* Every descriptor is constructed: the Dispatcher loop is entered.
EnterLoop ==
    /\ pc = "to_command"
    /\ ci > Len(configs)
    /\ pc' = "wait"
    /\ watchCalls' = << >> /\ logged' = << >>
    /\ UNCHANGED << now, queue, connected, timers, idx, cmd, children,
                    result, firstHit, absorbed, wakeRun, existing, callback,
                    startup_vars, glob_vars >>

StartupNext ==
    \/ ToCommand
    \/ WalkEntry
    \/ PushSeedo
    \/ EnterLoop

StartupSpec == StartupInit /\ [][StartupNext]_vars

\* try_main runs on the main thread: start-up goes on until it returns or
\* the loop is entered.
FairStartupSpec == StartupSpec /\ WF_vars(StartupNext)

\* ========================================================= glob_watcher
\* glob_watcher.rs: the glob compiler Pattern::new, GlobWatcher::matches
\* and the base directories of GlobWatcher::from_patterns.
\*
\* A string is a sequence of one-character strings.  An absolute path
\* (PathBuf) is the sequence of its Normal components below the root, each
\* a string; a relative path or glob is the sequence of its components.

\* The working directory of the process: the root directory.
current_dir == << >>

\* Path::absolutize for a relative path without `.` and `..` components:
\* the path below the working directory.
absolutize(path) == current_dir \o path

RECURSIVE to_raw_bytes(_)
\* The bytes of an absolute path: "/" alone for the root, else every
\* component preceded by "/".
to_raw_bytes(path) ==
    IF path = << >> THEN << "/" >>
    ELSE IF Len(path) = 1 THEN << "/" >> \o path[1]
    ELSE << "/" >> \o path[1] \o to_raw_bytes(Tail(path))

\* The byte value of the characters of the model (ASCII).
byte(ch) ==
    CASE ch = "$" -> 36   [] ch = "(" -> 40   [] ch = ")" -> 41
      [] ch = "*" -> 42   [] ch = "+" -> 43   [] ch = "-" -> 45
      [] ch = "." -> 46   [] ch = "/" -> 47   [] ch = ":" -> 58
      [] ch = "?" -> 63   [] ch = "[" -> 91   [] ch = "\\" -> 92
      [] ch = "]" -> 93   [] ch = "^" -> 94   [] ch = "a" -> 97
      [] ch = "b" -> 98   [] ch = "c" -> 99   [] ch = "t" -> 116
      [] ch = "x" -> 120  [] ch = "{" -> 123  [] ch = "|" -> 124
      [] ch = "}" -> 125

RECURSIVE bytes_cmp(_, _)
\* Ord for byte strings (OsStr): "less", "equal" or "greater".
bytes_cmp(u, v) ==
    IF u = << >> THEN (IF v = << >> THEN "equal" ELSE "less")
    ELSE IF v = << >> THEN "greater"
    ELSE IF byte(Head(u)) < byte(Head(v)) THEN "less"
    ELSE IF byte(Head(u)) > byte(Head(v)) THEN "greater"
    ELSE bytes_cmp(Tail(u), Tail(v))

\* A plausible slip: paths are ordered as their byte strings.
path_cmp_as_bytes(p, q) == bytes_cmp(to_raw_bytes(p), to_raw_bytes(q))

RECURSIVE path_cmp(_, _)
\* Ord for PathBuf as BTreeSet<PathBuf> uses it: the components are
\* compared one by one, a proper prefix is less.
path_cmp(p, q) ==
    IF p = << >> THEN (IF q = << >> THEN "equal" ELSE "less")
    ELSE IF q = << >> THEN "greater"
    ELSE IF bytes_cmp(Head(p), Head(q)) # "equal"
         THEN bytes_cmp(Head(p), Head(q))
    ELSE path_cmp(Tail(p), Tail(q))

\* Path::starts_with: `base` is a prefix of `path` in whole components.
starts_with(path, base) ==
    /\ Len(base) <= Len(path)
    /\ \A k \in DOMAIN base : path[k] = base[k]

\* ------------------------------------------------------------ regex
\* regex::bytes::Regex for the syntax Pattern::new can produce: literals,
\* `.`, the class `[^/]`, groups, the repetitions `*`, `+`, `?` (a `?`
\* after a repetition makes it lazy) and `\` before a punctuation
\* character (no glob of the model brings a letter after a `\`).  A regex
\* is parsed to a tree of nodes
\*   [t |-> "lit", c |-> ch], [t |-> "any"], [t |-> "notslash"],
\*   [t |-> "cat", rs |-> nodes], [t |-> "*" or "+" or "?", r |-> node].
RegexError == [ok |-> FALSE, node |-> [t |-> "any"], next |-> 0]

RegexOk(node, next) == [ok |-> TRUE, node |-> node, next |-> next]

RECURSIVE parse_repetition(_, _)
\* The repetition operators that follow the expression parsed as `res`.
parse_repetition(re, res) ==
    IF ~ res.ok \/ res.next > Len(re) THEN res
    ELSE IF re[res.next] \in { "*", "+", "?" }
    THEN LET lazy == res.next < Len(re) /\ re[res.next + 1] = "?"
         IN  parse_repetition(re,
                 RegexOk([t |-> re[res.next], r |-> res.node],
                         res.next + (IF lazy THEN 2 ELSE 1)))
    ELSE res

RECURSIVE parse_concat(_, _, _)
RECURSIVE parse_atom(_, _)
\* One expression at position i: a group, the class [^/], `.`, an escaped
\* character or a literal.
parse_atom(re, i) ==
    IF re[i] = "("
    THEN LET inner == parse_concat(re, i + 1, << >>)
         IN  IF inner.ok /\ inner.next <= Len(re) /\ re[inner.next] = ")"
             THEN RegexOk(inner.node, inner.next + 1)
             ELSE RegexError
    ELSE IF re[i] = "["
    THEN IF i + 3 <= Len(re) /\ SubSeq(re, i + 1, i + 3) = << "^", "/", "]" >>
         THEN RegexOk([t |-> "notslash"], i + 4)
         ELSE RegexError
    ELSE IF re[i] = "."
    THEN RegexOk([t |-> "any"], i + 1)
    ELSE IF re[i] = "\\"
    THEN IF i < Len(re)
         THEN RegexOk([t |-> "lit", c |-> re[i + 1]], i + 2)
         ELSE RegexError
    ELSE IF re[i] \in { "*", "+", "?" }
    THEN RegexError
    ELSE RegexOk([t |-> "lit", c |-> re[i]], i + 1)

\* The expressions from position i up to the end or the next `)`.
parse_concat(re, i, acc) ==
    IF i > Len(re) \/ re[i] = ")"
    THEN RegexOk([t |-> "cat", rs |-> acc], i)
    ELSE LET item == parse_repetition(re, parse_atom(re, i))
         IN  IF item.ok THEN parse_concat(re, item.next, Append(acc, item.node))
             ELSE RegexError

\* Regex::new: the whole string has to parse (a `)` left over is an
\* unopened group).
Regex_new(re) ==
    LET res == parse_concat(re, 1, << >>)
    IN  IF res.ok /\ res.next = Len(re) + 1 THEN res ELSE RegexError

RECURSIVE regex_ends(_, _, _)
RECURSIVE cat_ends(_, _, _, _)
RECURSIVE star_ends(_, _, _, _)
\* A plausible slip: the `?` of the groups of the directory regex (and of
\* the `:` that opens them) does not make them optional.
optional_ends_required(node, bytes, i) == regex_ends(node.r, bytes, i)

\* `?`: the expression before it may be left out.
optional_ends(node, bytes, i) == { i } \cup regex_ends(node.r, bytes, i)

\* The positions at which a match of `node` that begins at position i of
\* `bytes` can end.
regex_ends(node, bytes, i) ==
    CASE node.t = "lit" ->
            IF i <= Len(bytes) /\ bytes[i] = node.c THEN { i + 1 } ELSE { }
      [] node.t = "any" ->
            IF i <= Len(bytes) THEN { i + 1 } ELSE { }
      [] node.t = "notslash" ->
            IF i <= Len(bytes) /\ bytes[i] # "/" THEN { i + 1 } ELSE { }
      [] node.t = "cat" -> cat_ends(node.rs, 1, bytes, { i })
      [] node.t = "?" -> optional_ends(node, bytes, i)
      [] node.t = "*" -> star_ends(node.r, bytes, { i }, { i })
      [] node.t = "+" ->
            LET first == regex_ends(node.r, bytes, i)
            IN  star_ends(node.r, bytes, first, first)

cat_ends(rs, k, bytes, begins) ==
    IF k > Len(rs) THEN begins
    ELSE cat_ends(rs, k + 1, bytes,
                  UNION { regex_ends(rs[k], bytes, i) : i \in begins })

star_ends(node, bytes, frontier, seen) ==
    LET further == UNION { regex_ends(node, bytes, i) : i \in frontier }
                   \ seen
    IN  IF further = { } THEN seen
        ELSE star_ends(node, bytes, further, seen \cup further)

\* Regex::is_match: the regex matches somewhere in the bytes.
is_match(re, bytes) ==
    LET res == Regex_new(re)
    IN  /\ res.ok
        /\ \E i \in 1 .. Len(bytes) + 1 :
               regex_ends(res.node, bytes, i) # { }

\* ------------------------------------------------------- Pattern::new
\* The characters Pattern::new does not allow in a component.
Disallowed == { "[", "]", "(", ")", "+", "$", "^", "{", "}", "|" }

\* str::contains('*')
contains_star(comp) == \E k \in DOMAIN comp : comp[k] = "*"

\* str::contains("**")
contains_double_star(comp) ==
    \E k \in 1 .. Len(comp) - 1 : comp[k] = "*" /\ comp[k + 1] = "*"

RECURSIVE replace_star(_)
\* comp.replace('*', "[^/]*")
replace_star(comp) ==
    IF comp = << >> THEN << >>
    ELSE (IF Head(comp) = "*" THEN << "[", "^", "/", "]", "*" >>
          ELSE << Head(comp) >>) \o replace_star(Tail(comp))

RECURSIVE base_directory_of(_)
\* components.clone().take_while(|c| !c.contains('*')).collect()
base_directory_of(components) ==
    IF components = << >> \/ contains_star(Head(components)) THEN << >>
    ELSE << Head(components) >> \o base_directory_of(Tail(components))

\* "**" == comp
is_double_star(comp) == comp = << "*", "*" >>

\* The text pushed for a component that is not `**`: only `*` is replaced.
push_component(comp) == replace_star(comp)

RECURSIVE Pattern_new_from(_, _, _)
\* The `while let Some(comp) = components.next()` loop from the k-th
\* Normal component on; `st` holds the locals of Pattern::new.
Pattern_new_from(components, k, st) ==
    IF ~ st.ok \/ k > Len(components) THEN st
    ELSE LET comp == components[k]
         IN  IF is_double_star(comp)
             THEN Pattern_new_from(components, k + 1,
                    [st EXCEPT
                       !.file_regex = @ \o << "[", "^", "/", "]", "+", "(",
                                              "/", "[", "^", "/", "]", ")",
                                              "*" >>,
                       !.directory_regex =
                           IF st.directory_finished THEN @
                           ELSE @ \o << ".", "*" >>,
                       !.directory_finished = TRUE])
             ELSE IF \/ contains_double_star(comp)
                     \/ \E j \in DOMAIN comp : comp[j] \in Disallowed
             THEN [st EXCEPT !.ok = FALSE]
             ELSE LET text == push_component(comp)
                      peek == k < Len(components)
                      open == ~ st.directory_finished
                  IN  Pattern_new_from(components, k + 1,
                        [st EXCEPT
                           !.file_regex =
                               @ \o text
                                 \o (IF peek THEN << "/" >> ELSE << >>),
                           !.directory_regex =
                               IF ~ open THEN @
                               ELSE @ \o << "(", ":", "?" >> \o text
                                      \o (IF peek
                                          THEN << "(", ":", "?", "/" >>
                                          ELSE << >>),
                           !.directory_closing_parens =
                               IF ~ open THEN @
                               ELSE @ + (IF peek THEN 2 ELSE 1)])

RECURSIVE closing_parens(_)
\* for _ in 0..directory_closing_parens { directory_regex.push_str(")?") }
closing_parens(n) ==
    IF n = 0 THEN << >> ELSE << ")", "?" >> \o closing_parens(n - 1)

\* Pattern::new: Err when a component is refused or a regex does not
\* parse, else the two regexes and the base directory.
Pattern_new(glob_str) ==
    LET abs_pattern == absolutize(glob_str)
        st == Pattern_new_from(abs_pattern, 1,
                  [ok |-> TRUE,
                   file_regex |-> << "/" >>,
                   directory_regex |-> << "/" >>,
                   directory_finished |-> FALSE,
                   directory_closing_parens |-> 0])
        directory_regex ==
            st.directory_regex \o closing_parens(st.directory_closing_parens)
    IN  IF /\ st.ok
           /\ Regex_new(st.file_regex).ok
           /\ Regex_new(directory_regex).ok
        THEN [ok |-> TRUE,
              file_regex |-> st.file_regex,
              directory_regex |-> directory_regex,
              base_directory |-> base_directory_of(abs_pattern)]
        ELSE [ok |-> FALSE,
              file_regex |-> << >>,
              directory_regex |-> << >>,
              base_directory |-> << >>]

\* GlobWatcher::matches for a watcher built by from_pattern: the directory
\* regex for a directory, the file regex for any other path.
matches(compiled, path, is_dir) ==
    IF is_dir
    THEN is_match(compiled.directory_regex, to_raw_bytes(absolutize(path)))
    ELSE is_match(compiled.file_regex, to_raw_bytes(absolutize(path)))

\* ------------------------------------------------ from_patterns
RECURSIVE btree_insert(_, _)
\* BTreeSet<PathBuf>::insert on the set as its ascending sequence.
btree_insert(set, p) ==
    IF set = << >> THEN << p >>
    ELSE IF path_cmp(p, Head(set)) = "less" THEN << p >> \o set
    ELSE IF path_cmp(p, Head(set)) = "equal" THEN set
    ELSE << Head(set) >> \o btree_insert(Tail(set), p)

RECURSIVE collect_base_directories(_, _)
\* patterns.iter().map(|p| p.base_directory.clone()).collect()
collect_base_directories(compiled, k) ==
    IF k = 0 THEN << >>
    ELSE btree_insert(collect_base_directories(compiled, k - 1),
                      compiled[k].base_directory)

RECURSIVE filter_last_dir(_, _, _)
\* .filter(|p| ...) with last_dir_opt, from the k-th element of the set on.
filter_last_dir(set, k, last_dir_opt) ==
    IF k > Len(set) THEN << >>
    ELSE IF last_dir_opt # None /\ starts_with(set[k], last_dir_opt[1])
    THEN filter_last_dir(set, k + 1, last_dir_opt)
    ELSE << set[k] >> \o filter_last_dir(set, k + 1, Some(set[k]))

\* The head of GlobWatcher::from_patterns: every glob is compiled (an Err
\* is returned), the base directories are collected and filtered.
from_patterns(globs) ==
    LET compiled == [k \in DOMAIN globs |-> Pattern_new(globs[k])]
    IN  IF \E k \in DOMAIN globs : ~ compiled[k].ok
        THEN [ok |-> FALSE, base_directories |-> << >>]
        ELSE [ok |-> TRUE,
              base_directories |->
                  filter_last_dir(
                      collect_base_directories(compiled, Len(globs)),
                      1, None)]

\* ------------------------------------------------------ specifications
\* A bound: the number of components of a glob.
MaxComponents == 3

\* A bound: the number of components of a path that is matched.
MaxDepth == 4

\* A bound: the number of globs given to from_patterns.
MaxPatterns == 3

\* The components globs are built of: a name, a name with a `.`, a name
\* with `*`, and `**`.
GlobComponents ==
    { << "a" >>,
      << "b", ".", "t", "x", "t" >>,
      << "*", ".", "t", "x", "t" >>,
      << "*", "*" >> }

\* Components that hold `**` together with other text, a disallowed
\* character, or a trailing `\`.
OddComponents ==
    { << "a", "*", "*" >>, << "*", "*", "a" >>, << "*", "*", "*" >>,
      << "a", "\\" >> }
    \cup { << "a", ch >> : ch \in Disallowed }
    \cup { << ch, "a" >> : ch \in Disallowed }

\* The globs that are compiled.
Globs ==
    SeqsUpTo(GlobComponents, MaxComponents)
    \cup { << odd >> : odd \in OddComponents }
    \cup { << << "a" >>, odd >> : odd \in OddComponents }
    \cup { << odd, << "a" >> >> : odd \in OddComponents }

\* The names paths are built of.
PathNames ==
    { << "a" >>, << "b", ".", "t", "x", "t" >> }

\* The paths that are matched: every path of these names, and the paths
\* below directories named a whose last name, "bxtxt", differs from
\* "b.txt" where that has the `.`.
Paths ==
    SeqsUpTo(PathNames, MaxDepth)
    \cup { << << "b", "x", "t", "x", "t" >> >> }
    \cup { Append(dir, << "b", "x", "t", "x", "t" >>) :
               dir \in SeqsUpTo({ << "a" >> }, MaxDepth - 1) }

\* A glob is given to GlobWatcher::from_pattern.
GlobInit ==
    /\ LoopInit
    /\ StartupOver
    /\ gw_pattern \in Globs
    /\ gw_compiled = None
    /\ gw_path = None
    /\ gw_is_dir = FALSE
    /\ gw_matched = None
    /\ gw_patterns = << >>
    /\ base_directories = None

\* Pattern::new(pattern)
New ==
    /\ gw_compiled = None
    /\ gw_compiled' = Some(Pattern_new(gw_pattern))
    /\ UNCHANGED << loop_vars, startup_vars, gw_pattern, gw_path, gw_is_dir,
                    gw_matched, gw_patterns, base_directories >>

\* GlobWatcher::matches(path) on the watcher built from the glob.
Matches ==
    /\ gw_compiled # None
    /\ gw_compiled[1].ok
    /\ gw_path = None
    /\ \E path \in Paths : \E is_dir \in BOOLEAN :
         /\ gw_path' = Some(path)
         /\ gw_is_dir' = is_dir
         /\ gw_matched' = Some(matches(gw_compiled[1], path, is_dir))
    /\ UNCHANGED << loop_vars, startup_vars, gw_pattern, gw_compiled,
                    gw_patterns, base_directories >>

GlobNext == New \/ Matches

GlobSpec == GlobInit /\ [][GlobNext]_vars

\* The globs whose base directories are filtered: directories below one
\* another, siblings whose names share a prefix, a `*` component.
DirGlobs ==
    { << << "a" >> >>,
      << << "a" >>, << "b" >> >>,
      << << "a", "-", "b" >> >>,
      << << "c" >> >>,
      << << "a" >>, << "b" >>, << "c" >> >>,
      << << "a" >>, << "*" >> >> }

\* A list of globs is given to GlobWatcher::from_patterns.
BaseDirInit ==
    /\ LoopInit
    /\ StartupOver
    /\ gw_pattern = << >>
    /\ gw_compiled = None
    /\ gw_path = None
    /\ gw_is_dir = FALSE
    /\ gw_matched = None
    /\ gw_patterns \in SeqsUpTo(DirGlobs, MaxPatterns)
    /\ base_directories = None

\* GlobWatcher::from_patterns(patterns, false): the base directories are
\* computed and subscribed one by one; the first failure is returned.
FromPatterns ==
    /\ base_directories = None
    /\ LET built == from_patterns(gw_patterns)
       IN  /\ base_directories' = Some(built.base_directories)
           /\ \E failed \in 0 .. Len(built.base_directories) :
                /\ watchCalls' =
                      [k \in 1 .. (IF failed = 0
                                   THEN Len(built.base_directories)
                                   ELSE failed) |->
                          [path |-> built.base_directories[k],
                           mode |-> "Recursive",
                           ok |-> k # failed]]
                /\ result' = IF built.ok /\ failed = 0 THEN "running"
                             ELSE "Err"
    /\ UNCHANGED << now, queue, connected, timers, pc, idx, cmd, children,
                    firstHit, absorbed, wakeRun, logged, existing, callback,
                    startup_vars, gw_pattern, gw_compiled, gw_path,
                    gw_is_dir, gw_matched, gw_patterns >>

BaseDirNext == FromPatterns

BaseDirSpec == BaseDirInit /\ [][BaseDirNext]_vars

\* ---------------------------------------------------------------- claims
\* The step in which the Dispatcher dequeues the event at the head of the
\* channel.
Dequeue == pc = "wait" /\ queue # << >> /\ queue' = Tail(queue)

\* The step in which the Dispatcher starts the command of rule r.
Starts(r) ==
    /\ pc = "service" /\ pc' = "command"
    /\ wakeRun' = Append(wakeRun, r)

\* C1: anchored debounce.  A qualifying event dequeued while the rule's
\* timer is Running leaves the start instant unchanged: a Running timer
\* always holds the time the first qualifying event since the rule's last
\* execution was dequeued, however many followed.  The timer leaves Running
\* only by the start of the rule's command, which is one execution for the
\* whole burst and comes after (first event time + debounce).
C1_AnchoredDebounce ==
    /\ [](\A r \in Rules : timers[r] = firstHit[r])
    /\ [][\A r \in Rules :
             /\ (Dequeue /\ timers[r] # None) => timers'[r] = timers[r]
             /\ (timers[r] # None /\ timers'[r] # timers[r]) =>
                    /\ Starts(r)
                    /\ timers'[r] = None
                    /\ now > firstHit[r][1] + Duration(r)
       ]_vars

\* C1 witness: a second qualifying event of a rule was dequeued later than
\* the first while the timer was Running, and the timer still holds the
\* time of the first.
C1_Witness ==
    \E r \in Rules :
        /\ absorbed[r]
        /\ timers[r] # None
        /\ now > timers[r][1]

\* The deadline of rule r has passed: its timer is Running and more than
\* the debounce time has elapsed since the start instant.
Overdue(r) == timers[r] # None /\ now > timers[r][1] + Duration(r)

\* C2: bounded latency under sustained activity.  While the channel stays
\* connected, a rule whose deadline has passed has its command executed in
\* the end: the Dispatcher cannot keep dequeuing events for ever instead.
C2_BoundedLatency ==
    \A r \in Rules : Overdue(r) ~> (timers[r] = None \/ ~ connected)

\* Rule r has reached its deadline: now >= start instant + debounce.
Reached(r) == timers[r] # None /\ now >= timers[r][1] + Duration(r)

\* The step in which the service loop, woken by a Timeout, deals with rule r.
Visits(r) ==
    /\ pc = "service" /\ zip_order(idx) = r
    /\ (pc' # pc \/ idx' # idx)

\* C3: in a wake caused by a Timeout, every rule that has reached or
\* passed its deadline (exact equality included) when the loop deals with
\* it has its timer stopped and its command started.
C3_ReachedDeadlineRuns ==
    [][\A r \in Rules :
          (Visits(r) /\ Reached(r)) => (Starts(r) /\ timers'[r] = None)
      ]_vars

\* C4: commands run one at a time and in declaration order.  At most one
\* child process runs; a command is started only when no other is running
\* (the earlier one has returned); the commands started in one wake are
\* those of rules in increasing declaration order.
C4_SequentialInOrder ==
    /\ [](Cardinality(children) <= 1)
    /\ [](\A i, j \in DOMAIN wakeRun : i < j => wakeRun[i] < wakeRun[j])
    /\ [][\A r \in Rules : Starts(r) => (children = { } /\ cmd = "none")
       ]_vars

\* C4 witness: both rules were expired in the same wake; the command of
\* the first has returned and the command of the second is running.
C4_Witness ==
    /\ pc = "command"
    /\ wakeRun = << 1, 2 >>
    /\ children = { 2 }

\* C5: rule independence.  When an event is dequeued, the timer of every
\* rule the event qualifies for is armed if it was Stopped (and kept if it
\* was Running), and the timer of every other rule is left unchanged.
C5_RuleIndependence ==
    [][Dequeue =>
          \A r \in Rules :
              IF Qualifies(r, Head(queue))
              THEN timers'[r] = (IF timers[r] = None THEN Some(now)
                                 ELSE timers[r])
              ELSE timers'[r] = timers[r]
      ]_vars

\* C5 witness: an event that qualifies for the first rule only was just
\* dequeued with both timers Stopped: the first is armed, the second not.
C5_Witness ==
    /\ pc = "wait"
    /\ timers[1] = Some(now)
    /\ timers[2] = None
    /\ firstHit[2] = None

\* The kinds the EventFilter drops.
Filtered == { "Access", "Modify(Metadata)" }

\* C6: EventFilter boundary.  The callback enqueues a raw notification if
\* and only if its kind is neither Access nor metadata-only Modify, and it
\* touches no timer; so the channel never holds such an event, and a timer
\* goes from Stopped to Running only when an event of another kind is
\* dequeued.
C6_EventFilter ==
    /\ [](\A i \in DOMAIN queue : ~ (queue[i].kind \in Filtered))
    /\ [][/\ \A event \in RawEvents :
               Notify(event) =>
                   /\ (queue' = Append(queue, event))
                          <=> ~ (event.kind \in Filtered)
                   /\ (queue' = queue) <=> (event.kind \in Filtered)
                   /\ timers' = timers
          /\ \A r \in Rules :
               (timers[r] = None /\ timers'[r] # None) =>
                   (Dequeue /\ ~ (Head(queue).kind \in Filtered))
       ]_vars

\* C6 witness: a notification was just dropped by the callback (an Access
\* or metadata-only Modify event, whose paths match a rule) and every
\* timer is still Stopped.
C6_Witness ==
    /\ callback = "dropped"
    /\ \A r \in Rules : timers[r] = None

\* The paths of `paths` that are in `ex`, in order.
Existing(paths, ex) == SelectSeq(paths, LAMBDA p : p \in ex)

\* C7: dynamic extension.  When the Dispatcher dequeues a Create event, it
\* calls watch() once for each path of the event that exists at that
\* moment, in order, NonRecursive, whether or not the path matches a rule;
\* when it dequeues an event of another kind it calls watch() for nothing.
C7_DynamicExtension ==
    [][Dequeue =>
          IF Head(queue).kind = "Create"
          THEN /\ Len(watchCalls') = Len(Existing(Head(queue).paths, existing'))
               /\ \A i \in DOMAIN watchCalls' :
                     /\ watchCalls'[i].path
                            = Existing(Head(queue).paths, existing')[i]
                     /\ watchCalls'[i].mode = "NonRecursive"
          ELSE watchCalls' = << >>
      ]_vars

\* C7 witness: of the two paths of a Create event only "c.tmp", which no
\* rule matches, existed: it is the one path watch() was called for.
C7_Witness ==
    /\ existing = { "c.tmp" }
    /\ Len(watchCalls) = 1
    /\ watchCalls[1].path = "c.tmp"

\* q is a prefix of p.
IsPrefix(q, p) == Len(q) <= Len(p) /\ SubSeq(p, 1, Len(q)) = q

\* C8: no notification is lost while a command runs.  The channel changes
\* only by a notifier appending an event at its end and by the Dispatcher,
\* waiting at the top of its loop, removing the event at its head, which
\* it then processes (watch extension and arming); so while a command
\* runs the events sent stay in the channel, in the order sent.  The rule
\* whose command runs has its timer Stopped, so that a qualifying event
\* sent meanwhile arms it again when it is dequeued.
C8_NoEventLost ==
    /\ [](pc = "command" => timers[zip_order(idx)] = None)
    /\ [][/\ \/ queue' = queue
             \/ \E event \in RawEvents :
                    queue' = Append(queue, event) /\ callback' = "sent"
             \/ /\ Dequeue
                /\ \A r \in Rules :
                       Qualifies(r, Head(queue)) => timers'[r] # None
                /\ Head(queue).kind = "Create" =>
                       Len(watchCalls') = Cardinality(existing')
          /\ pc # "wait" => IsPrefix(queue, queue')
       ]_vars

\* C8 witness: while the command of a rule runs, a notifier has just sent
\* a second event, which qualifies for that rule.
C8_Witness ==
    /\ pc = "command"
    /\ callback = "sent"
    /\ Len(queue) = 2
    /\ Qualifies(zip_order(idx), queue[2])

\* C9: terminal condition.  With the channel disconnected and empty, the
\* only step the waiting Dispatcher takes is to leave the loop and return
\* Ok; the loop is left in no other way; once it is left nothing changes
\* (no command is started, Running timers stay as they are).
C9_Terminal ==
    /\ [](pc = "done" <=> result = "Ok")
    /\ [](pc = "done" => (~ connected /\ queue = << >> /\ children = { }))
    /\ [][/\ (pc = "wait" /\ ~ connected /\ queue = << >> /\ pc' # pc)
              => pc' = "done"
          /\ (pc' = "done" /\ pc # "done")
              => (pc = "wait" /\ ~ connected /\ queue = << >>
                  /\ timers' = timers /\ children' = children
                  /\ logged' = << "event channel closed" >>)
          /\ pc = "done" => (pc' = "done" /\ timers' = timers)
       ]_vars

\* C9 witness: the loop was left while the deadline of a rule had passed.
C9_Witness ==
    /\ pc = "done"
    /\ \E r \in Rules : Overdue(r)

\* The step in which status() returns for the command of rule r.
Returns(r) == pc = "command" /\ zip_order(idx) = r /\ pc' # pc

\* C10: steady-state errors never unwind the loop.  Whatever the result of
\* a command (failed to launch, exit code, no exit code, success), the
\* rule's timer is Stopped, the result is only logged, and the service
\* loop goes on with the next rule or goes back to wait; a failed watch()
\* call is only logged and the event is processed like any other.
C10_ErrorsIsolated ==
    /\ [](result # "Err")
    /\ [][/\ \A r \in Rules :
               Returns(r) =>
                   /\ timers[r] = None /\ timers' = timers
                   /\ logged' =
                        (IF cmd = "success" THEN << >>
                         ELSE IF cmd = "code"
                              THEN << "command exited with code" >>
                         ELSE IF cmd = "nocode"
                              THEN << "command exited without code" >>
                         ELSE << "command failed to launch" >>)
                   /\ IF r < Len(Configs)
                      THEN pc' = "service" /\ zip_order(idx') = r + 1
                      ELSE pc' = "wait"
          /\ Dequeue =>
                /\ pc' = "wait"
                /\ Len(logged') =
                      Cardinality({ i \in DOMAIN watchCalls' :
                                        ~ watchCalls'[i].ok })
                /\ \A r \in Rules :
                       Qualifies(r, Head(queue)) => timers'[r] # None
       ]_vars

\* C10 witness: the command of the first rule failed to launch and the
\* service loop has gone on to the second rule.
C10_Witness ==
    /\ pc = "service"
    /\ idx = 2
    /\ logged = << "command failed to launch" >>

\* The rules whose timer is Running.
Running == { r \in Rules : timers[r] # None }

\* max(0, debounce duration - time elapsed since the timer's start)
Remaining(r) ==
    IF Duration(r) - (now - timers[r][1]) > 0
    THEN Duration(r) - (now - timers[r][1])
    ELSE 0

\* C19: wait primitive.  In every state the timeout the Dispatcher waits
\* with is the minimum, over the rules whose timer is Running, of
\* max(0, debounce duration - elapsed since start), and there is no timeout
\* when no timer is Running.  The wait ends with Timeout only when that
\* minimum has run out and no event is available; an available event is
\* returned whatever time remains; without a Running timer the wait ends
\* only by an event or by the disconnection of the channel.
C19_WaitPrimitive ==
    /\ [](LET d == set_calculate_timeout(timers, now)
          IN  /\ Running = { } => d = None
              /\ Running # { } =>
                    /\ d # None
                    /\ \E r \in Running : d[1] = Remaining(r)
                    /\ \A r \in Running : d[1] <= Remaining(r))
    /\ [](pc = "wait" /\ queue # << >> =>
              timeout(timers, queue, connected, now) = "Ok")
    /\ [][pc = "wait" /\ pc' = "service" =>
              /\ queue = << >>
              /\ Running # { }
              /\ \E r \in Running : Remaining(r) = 0
       ]_vars
    /\ [][pc = "wait" /\ Running = { } /\ (pc' # pc \/ timers' # timers) =>
              \/ Dequeue
              \/ pc' = "done" /\ queue = << >> /\ ~ connected
       ]_vars

\* C19 witness: the Dispatcher waits with two Running timers that have
\* different times left, none of them run out, and an event is available.
C19_Witness ==
    /\ pc = "wait"
    /\ queue # << >>
    /\ Running = Rules
    /\ Remaining(1) # Remaining(2)
    /\ \A r \in Rules : Remaining(r) > 0

\* C20: no early firing.  When the command of a rule is started the rule's
\* timer is Running and more than (so at least) its debounce duration has
\* passed since the timer's start; the step that dequeues an event starts
\* no command; a rule whose timer is Stopped, or Running with its own
\* deadline still ahead, is not fired by the wake of another rule.
C20_NoEarlyFiring ==
    /\ [][\A r \in Rules :
             Starts(r) =>
                 /\ timers[r] # None
                 /\ now - timers[r][1] >= Duration(r)
       ]_vars
    /\ [][Dequeue =>
             /\ pc' = "wait"
             /\ cmd' = cmd /\ cmd = "none"
             /\ children' = children
       ]_vars
    /\ [](\A r \in children : timers[r] = None)

\* C20 witness: in one wake the command of the first rule was started
\* while the timer of the second rule is Running with its deadline not
\* passed, and was left alone.
C20_Witness ==
    /\ pc = "command"
    /\ wakeRun = << 1 >>
    /\ timers[2] # None
    /\ now - timers[2][1] <= Duration(2)

\* One iteration of the start-up registration loop: a walk entry is taken
\* and, unless it is an error, subscribed.
Registers == pc = "walk" /\ walk # << >> /\ (walk' # walk \/ pc' # pc)

\* C11: best-effort initial registration.  A walk entry that is an error,
\* or whose subscription fails, does not abort start-up: registration goes
\* on with the remaining entries, and try_main never returns the error of
\* a walk entry or of a subscription.
C11_BestEffortRegistration ==
    /\ [][Registers => pc' = "walk" /\ walk' = Tail(walk) /\ result' = result
       ]_vars
    /\ [](failure \notin { "entry error", "watch error" })

\* A Rule descriptor that cannot be constructed.
BadDescriptor(config) ==
    \/ config.command_to_run = << >>
    \/ config.globs = << >>
    \/ \E j \in DOMAIN config.globs : config.globs[j] = "["

\* C18: construction-time errors are fatal before dispatch.  When some
\* Rule descriptor has no glob, an empty command or a glob that does not
\* compile, start-up returns an error and the process exits with status 1;
\* the Dispatcher loop is never entered and no command is run.
C18_ConstructionErrorsFatal ==
    /\ []((\E i \in DOMAIN configs : BadDescriptor(configs[i])) =>
             /\ pc \in { "to_command", "walk", "done" }
             /\ children = { } /\ cmd = "none"
             /\ pc = "done" => result = "Err" /\ exit_status(result) = 1)
    /\ ((\E i \in DOMAIN configs : BadDescriptor(configs[i])) ~>
             (pc = "done" /\ exit_status(result) = 1))

\* C18 witness: the first descriptor was constructed and its paths were
\* subscribed, the second has an empty command, and try_main has returned
\* the error.
C18_Witness ==
    /\ Len(configs) = 2
    /\ ~ BadDescriptor(configs[1])
    /\ configs[2].command_to_run = << >>
    /\ configs[2].globs = << "src" >>
    /\ ci = 2
    /\ pc = "done"
    /\ failure = "no command given"
    /\ exit_status(result) = 1

\* The base directories of the globs given to from_patterns.
BaseDirs ==
    { base_directory_of(absolutize(gw_patterns[k])) : k \in DOMAIN gw_patterns }

\* Directory p is q or an ancestor of q.
IsAncestorOrEqual(p, q) ==
    Len(p) <= Len(q) /\ SubSeq(q, 1, Len(p)) = p

\* C12: WatchSet de-duplication.  The base directories from_patterns
\* retains are base directories of the globs, no retained directory is
\* equal to or an ancestor of another, and every base directory that was
\* dropped has an ancestor (or itself) in the retained list, for every
\* order of the globs and for sibling names that share a prefix.  The base
\* directories /a, /a/b, /c are retained as /a and /c.
C12_WatchSetDeduplicated ==
    base_directories # None =>
        LET kept == base_directories[1]
            Kept == { kept[k] : k \in DOMAIN kept }
        IN  /\ Kept \subseteq BaseDirs
            /\ \A i, j \in DOMAIN kept :
                   i # j => ~ IsAncestorOrEqual(kept[i], kept[j])
            /\ \A dir \in BaseDirs :
                   \E p \in Kept : IsAncestorOrEqual(p, dir)
            /\ BaseDirs = { << << "a" >> >>, << << "a" >>, << "b" >> >>,
                            << << "c" >> >> }
                 => Kept = { << << "a" >> >>, << << "c" >> >> }

\* C12 witness: the globs were given as /a/b, /a-b, /a; /a and its sibling
\* /a-b are retained and /a/b is dropped.
C12_Witness ==
    /\ gw_patterns = << << << "a" >>, << "b" >> >>,
                        << << "a", "-", "b" >> >>,
                        << << "a" >> >> >>
    /\ base_directories =
           Some(<< << << "a" >> >>, << << "a", "-", "b" >> >> >>)

\* The file matcher of the compiled glob accepts the path that was
\* matched (the path is no directory).
FileMatched == gw_matched # None /\ ~ gw_is_dir /\ gw_matched[1]

\* C13: `**` consumes at least one component.  For the glob a/**/b.txt the
\* file matcher accepts exactly the paths with one or more whole components
\* between a and b.txt: it rejects a/b.txt and accepts a/a/b.txt and
\* a/a/a/b.txt.
C13_DoubleStarOneOrMore ==
    (/\ gw_pattern = << << "a" >>, << "*", "*" >>,
                        << "b", ".", "t", "x", "t" >> >>
     /\ gw_matched # None /\ ~ gw_is_dir)
    => (gw_matched[1] <=>
            /\ Len(gw_path[1]) >= 3
            /\ gw_path[1][1] = << "a" >>
            /\ gw_path[1][Len(gw_path[1])] = << "b", ".", "t", "x", "t" >>)

\* A glob without wildcard characters.
Literal(glob_str) == \A k \in DOMAIN glob_str : ~ contains_star(glob_str[k])

\* C14: literal patterns match exactly.  For a glob without wildcard
\* characters that compiles, the file matcher accepts the glob's absolute
\* path and no other path, and the base directory is the glob's absolute
\* path.
C14_LiteralExact ==
    (gw_compiled # None /\ gw_compiled[1].ok /\ Literal(gw_pattern)) =>
        /\ gw_compiled[1].base_directory = absolutize(gw_pattern)
        /\ (gw_matched # None /\ ~ gw_is_dir) =>
               (gw_matched[1] <=> gw_path[1] = absolutize(gw_pattern))

\* C15: `*` within a component never crosses a path separator.  Every path
\* the file matcher of a/*.txt accepts has exactly one component below a.
C15_StarWithinComponent ==
    (/\ gw_pattern = << << "a" >>, << "*", ".", "t", "x", "t" >> >>
     /\ FileMatched)
    => /\ Len(gw_path[1]) = 2
       /\ gw_path[1][1] = << "a" >>

\* C16: superset invariant.  For every glob that compiles and every path,
\* if the file regex accepts the path then the directory regex accepts it.
C16_Superset ==
    (gw_compiled # None /\ gw_compiled[1].ok /\ gw_path # None) =>
        (is_match(gw_compiled[1].file_regex, to_raw_bytes(gw_path[1]))
         => is_match(gw_compiled[1].directory_regex,
                     to_raw_bytes(gw_path[1])))

\* C16 witness: a path that the file regex of a glob with `**` and `*`
\* accepts has been matched.
C16_Witness ==
    /\ gw_pattern = << << "a" >>, << "*", "*" >>,
                       << "*", ".", "t", "x", "t" >> >>
    /\ gw_path # None
    /\ is_match(gw_compiled[1].file_regex, to_raw_bytes(gw_path[1]))
    /\ is_match(gw_compiled[1].directory_regex, to_raw_bytes(gw_path[1]))

\* A glob with disallowed syntax: a component holds `**` together with
\* other text, or one of the characters [ ] ( ) + $ ^ { } |.
DisallowedSyntax(glob_str) ==
    \E k \in DOMAIN glob_str :
        \/ contains_double_star(glob_str[k]) /\ glob_str[k] # << "*", "*" >>
        \/ \E j \in DOMAIN glob_str[k] : glob_str[k][j] \in Disallowed

\* C17: disallowed syntax is rejected at compile time, and only that.
\* Compiling a glob fails when it has disallowed syntax, and succeeds when
\* it has none.
C17_DisallowedSyntaxRejected ==
    gw_compiled # None =>
        (gw_compiled[1].ok <=> ~ DisallowedSyntax(gw_pattern))

\* C21: no spurious or repeated execution.  The step that starts a rule's
\* command finds the rule's timer Running and leaves it Stopped, so the
\* timer is Stopped while the command runs; a Stopped timer becomes
\* Running only by the dequeue of a qualifying event of the rule.  Every
\* start of the command uses up a qualifying event dequeued since the
\* rule's last execution (firstHit), so the executions of a rule never
\* outnumber the qualifying events dequeued for it.
C21_NoRepeatedExecution ==
    /\ [][\A r \in Rules :
             /\ Starts(r) =>
                    /\ timers[r] # None /\ timers'[r] = None
                    /\ firstHit[r] # None /\ firstHit'[r] = None
             /\ (timers[r] = None /\ timers'[r] # None) =>
                    Dequeue /\ Qualifies(r, Head(queue))
             /\ (firstHit[r] = None /\ firstHit'[r] # None) =>
                    Dequeue /\ Qualifies(r, Head(queue))
       ]_vars
    /\ [](pc = "command" => timers[zip_order(idx)] = None)

\* C21 witness: the command of the first rule is running with the rule's
\* timer Stopped, and the next qualifying event of the rule waits in the
\* channel.
C21_Witness ==
    /\ pc = "command"
    /\ zip_order(idx) = 1
    /\ timers[1] = None
    /\ firstHit[1] = None
    /\ queue # << >>
    /\ Qualifies(1, Head(queue))

=============================================================================
